---- MODULE Spec2Model ----
(***************************************************************************)
(* Thompson sampling over a combinatorial reagent space:                   *)
(* ThompsonSampler.warm_up followed by ThompsonSampler.search              *)
(* (src/thompson_sampling.py).  DisallowTracker and Reagent are imported   *)
(* by the source; they are modelled from their description in spec.md      *)
(* (sections 4.1 and 4.2).                                                 *)
(*                                                                         *)
(* Slots and reagent indices are 0-based as in the source.  A selection    *)
(* vector is a function  0..n-1 -> Int  holding Empty, To_Fill or an index.*)
(* Scores are small naturals; NaN stands for every non-finite float.       *)
(***************************************************************************)
EXTENDS Integers, Sequences, FiniteSets

\* ------------------------------------------------------------- bounds
\* warm_up is called with num_warmup_trials in 0..MaxTrials
MaxTrials == 2
\* number of search calls made after warm_up
MaxCalls == 2
\* sampled values (choice_row, selection_scores) range over 0..MaxVal
MaxVal == 1

\* ---------------------------------------------------------- sentinels
\* DisallowTracker.Empty: the slot is not filled yet
Empty == -1
\* DisallowTracker.To_Fill: the slot being filled by the current query
To_Fill == -2
\* np.nan, standing for every non-finite value
NaN == -9
\* search reports the best result when i % 100 == 0
ReportEvery == 100

\* ------------------------------------------------------ configuration
\* the reagent counts per slot the sampler is loaded with
SlotSizeChoices == {<<2, 2>>, <<3, 2>>}
\* the values search is called with as num_cycles
NumCyclesChoices == {1, 2, 6}
Modes == {"maximize", "minimize", "maximize_boltzmann", "minimize_boltzmann"}
\* "sum": score = sum of the reagent indices; "flaky": that score or NaN
Evaluators == {"sum", "flaky"}

VARIABLES
    reagent_count_list,   \* [slot -> number of reagents], fixed by read_reagents
    mode_arg,             \* the mode argument of __init__
    _mode,                \* self._mode
    num_warmup_trials,    \* argument of warm_up
    evaluator,            \* kind of self.evaluator
    bad_reagents,         \* reagents <<slot, idx>> with which RunReactants yields no product
    _disallow_mask,       \* DisallowTracker: [query vector -> set of disallowed indices]
    retired,              \* DisallowTracker: the reagents retired by retire_one_synthon
    initial_scores,       \* Reagent: [<<slot, idx>> -> sequence of the scores added]
    initialized,          \* Reagent: the reagents init_given_prior succeeded on
    _warmup_std,          \* self._warmup_std (see np_std), NaN while unset
    warmup_results,       \* warm_up's warmup_results
    out_list,             \* search's out_list
    i, j, k,              \* warm_up's loop variables
    partner_list,         \* warm_up: the partners p still to fill in this trial
    current_list,         \* warm_up's current_list
    num_cycles,           \* argument of search
    cycle,                \* search's loop variable i
    order,                \* search: the rest of random.sample(range(n), n)
    selected_reagents,    \* search's selected_reagents
    query_vector,         \* the vector of the last legality query, AllEmpty when none
    disallow_mask,        \* the set the last legality query returned
    choice_row,           \* the sampled values of the last pick, NaN at the disallowed
    cycle_id,             \* the slot of the last pick (p in warm_up, cycle_id in search)
    picked,               \* the last pick: an index, Empty before any, NaN when it raised
    res,                  \* the score of the last evaluate
    calls,                \* number of search calls started
    update_count,         \* history: [combination -> times passed to DisallowTracker.update]
    primary_commits,      \* history: [<<slot, idx>> -> warm-up updates with it as reagent j of slot i]
    pc,                   \* position of the control thread
    error                 \* the exception that ended the run, "" when none

vars == <<reagent_count_list, mode_arg, _mode, num_warmup_trials, evaluator, bad_reagents,
          _disallow_mask, retired, initial_scores, initialized, _warmup_std,
          warmup_results, out_list, i, j, k, partner_list, current_list,
          num_cycles, cycle, order, selected_reagents, query_vector, disallow_mask,
          choice_row, cycle_id, picked, res, calls, update_count, primary_commits,
          pc, error>>

\* ------------------------------------------------------------ helpers
n_slots == Cardinality(DOMAIN reagent_count_list)
idx_list == 0 .. (n_slots - 1)
Indices(s) == 0 .. (reagent_count_list[s] - 1)
AllIndices == UNION {Indices(s) : s \in idx_list}
Reagents == {e \in idx_list \X AllIndices : e[2] \in Indices(e[1])}
\* the full combinations: one concrete reagent index per slot
Combinations == {c \in [idx_list -> AllIndices] : \A s \in idx_list : c[s] \in Indices(s)}
\* the vectors a legality query may carry: one To_Fill, the rest Empty or concrete
QueryVectors ==
    {v \in [idx_list -> AllIndices \cup {Empty, To_Fill}] :
        /\ Cardinality({s \in idx_list : v[s] = To_Fill}) = 1
        /\ \A s \in idx_list : v[s] = To_Fill \/ v[s] = Empty \/ v[s] \in Indices(s)}
AllEmpty == [s \in idx_list |-> Empty]
isfinite(x) == x # NaN

RECURSIVE SeqSum(_)
SeqSum(q) == IF q = <<>> THEN 0 ELSE Head(q) + SeqSum(Tail(q))
RECURSIVE SeqSumSq(_)
SeqSumSq(q) == IF q = <<>> THEN 0 ELSE Head(q) * Head(q) + SeqSumSq(Tail(q))
RECURSIVE CombSum(_, _)
CombSum(c, s) == IF s = n_slots THEN 0 ELSE c[s] + CombSum(c, s + 1)

\* np.std(warmup_scores), kept as n^2 * variance = n * sum(x^2) - sum(x)^2:
\* a natural number that is 0 exactly when np.std is 0.0
np_std(scores) == Len(scores) * SeqSumSq(scores) - SeqSum(scores) * SeqSum(scores)

\* ---------------------------------------------------- DisallowTracker
\* DisallowTracker.get_disallowed_selection_mask(current_selection): the
\* indices disallowed for the slot marked To_Fill, given the other slots
get_disallowed_selection_mask(mask, current_selection) == mask[current_selection]

\* DisallowTracker.update on a vector whose slots from idx on are still to be
\* recorded: each concrete value is disallowed in the context of the others,
\* and when a slot's disallow set covers the slot the context without that
\* slot is exhausted and is recorded at the parent level in turn
RECURSIVE disallow_update(_, _, _)
disallow_update(mask, selected, idx) ==
    IF idx = n_slots THEN mask
    ELSE IF selected[idx] = Empty THEN disallow_update(mask, selected, idx + 1)
    ELSE LET key == [selected EXCEPT ![idx] = To_Fill]
             m1 == [mask EXCEPT ![key] = @ \cup {selected[idx]}]
         IN IF m1[key] = Indices(idx) /\ \E s \in idx_list : s # idx /\ selected[s] # Empty
            THEN disallow_update(disallow_update(m1, [selected EXCEPT ![idx] = Empty], 0),
                                 selected, idx + 1)
            ELSE disallow_update(m1, selected, idx + 1)

\* mutant: the combination is recorded without its exhausted contexts
RECURSIVE update_flat(_, _, _)
update_flat(mask, selected, idx) ==
    IF idx = n_slots THEN mask
    ELSE update_flat([mask EXCEPT ![[selected EXCEPT ![idx] = To_Fill]] = @ \cup {selected[idx]}],
                     selected, idx + 1)
update_no_exhaustion(mask, selected) == update_flat(mask, selected, 0)
\* DisallowTracker.update(selected): commit one full combination
update(mask, selected) == disallow_update(mask, selected, 0)

\* DisallowTracker.retire_one_synthon(slot, idx): every combination holding
\* the reagent is consumed, so the reagent is legal in no context
RECURSIVE retire_combinations(_, _)
retire_combinations(mask, combos) ==
    IF combos = {} THEN mask
    ELSE LET c == CHOOSE x \in combos : TRUE
         IN retire_combinations(update(mask, c), combos \ {c})
retire_one_synthon(mask, slot, idx) ==
    retire_combinations(mask, {c \in Combinations : c[slot] = idx})

\* Reagent.init_given_prior raises ValueError when the reagent has no score
init_given_prior_raises(scores, e) == scores[e] = <<>>
\* Reagent.add_score on every reagent of the combination
add_score(scores, selected, score) ==
    [e \in DOMAIN scores |->
        IF selected[e[1]] = e[2] THEN Append(scores[e], score) ELSE scores[e]]

\* ------------------------------------------------------ selection
\* the sampled values a slot's row may hold
Rows(s) == [Indices(s) -> 0 .. MaxVal]
\* mutant: the disallowed entries are not nulled out
null_disallowed_none(row, mask) == row
\* warm_up line 168: selection_scores[list(disallow_mask)] = np.nan
null_disallowed(row, mask) == [x \in DOMAIN row |-> IF x \in mask THEN NaN ELSE row[x]]
\* mutant: the disallowed entries are not nulled out
mask_choice_row_none(row, mask) == row
\* search lines 215-216: if disallow_mask: choice_row[...] = np.nan
mask_choice_row(row, mask) ==
    IF mask # {} THEN [x \in DOMAIN row |-> IF x \in mask THEN NaN ELSE row[x]] ELSE row

\* mutant: np.argmax in place of np.nanargmax: a NaN entry is the maximum
argmax(row) ==
    LET nans == {x \in DOMAIN row : row[x] = NaN}
        from == IF nans # {} THEN nans ELSE DOMAIN row
    IN {x \in from : \A y \in from : row[x] > row[y] \/ (row[x] = row[y] /\ x <= y)}
\* np.nanargmax: the first index of the greatest non-NaN value; the empty
\* set stands for the ValueError raised on an all-NaN row
nanargmax(row) ==
    LET fin == {x \in DOMAIN row : row[x] # NaN}
    IN IF fin = {} THEN {}
       ELSE {x \in fin : \A y \in fin : row[x] > row[y] \/ (row[x] = row[y] /\ x <= y)}
\* np.nanargmin: the first index of the least non-NaN value
nanargmin(row) ==
    LET fin == {x \in DOMAIN row : row[x] # NaN}
    IN IF fin = {} THEN {}
       ELSE {x \in fin : \A y \in fin : row[x] < row[y] \/ (row[x] = row[y] /\ x <= y)}

\* np.exp(scores / self._warmup_std) for one entry, as the class of the float:
\* with a zero spread the quotient is +inf, -inf or nan (0/0)
exp_term(mode, std, v) ==
    LET s == IF mode = "minimize_boltzmann" THEN 0 - v ELSE v
    IN IF v = NaN THEN "nan"
       ELSE IF std # 0 THEN "pos"
       ELSE IF s > 0 THEN "inf"
       ELSE IF s < 0 THEN "zero"
       ELSE "nan"
\* np.nansum(exp_terms), as the class of the float
nansum(terms) ==
    IF \E x \in DOMAIN terms : terms[x] = "inf" THEN "inf"
    ELSE IF \E x \in DOMAIN terms : terms[x] = "pos" THEN "pos"
    ELSE "zero"
\* _boltzmann_reweighted_pick: the indices np.random.choice may return; probs
\* is positive only where a finite positive term is divided by a finite
\* positive sum (inf/inf and 0/0 are nan and become 0.0); the empty set stands
\* for the ValueError of np.random.choice when probs does not sum to 1
_boltzmann_reweighted_pick(mode, std, row) ==
    LET exp_terms == [x \in DOMAIN row |-> exp_term(mode, std, row[x])]
        total == nansum(exp_terms)
    IN {x \in DOMAIN row : exp_terms[x] = "pos" /\ total = "pos"}

\* mutant: the pick functions of maximize and minimize are exchanged
pick_function_swapped(mode, std, row) ==
    IF mode = "maximize" THEN nanargmin(row)
    ELSE IF mode = "minimize" THEN nanargmax(row)
    ELSE _boltzmann_reweighted_pick(mode, std, row)
\* self.pick_function as chosen by __init__
pick_function(mode, std, row) ==
    IF mode = "maximize" THEN nanargmax(row)
    ELSE IF mode = "minimize" THEN nanargmin(row)
    ELSE _boltzmann_reweighted_pick(mode, std, row)

\* ----------------------------------------------------------- evaluate
\* self.reaction.RunReactants yields a product
RunReactants(selected) == \A s \in idx_list : <<s, selected[s]>> \notin bad_reagents
\* the scores self.evaluator.evaluate may return for the product
evaluator_evaluate(selected) ==
    IF evaluator = "sum" THEN {CombSum(selected, 0)} ELSE {NaN, CombSum(selected, 0)}
\* the values evaluate may return as res
evaluate_res(selected) ==
    IF RunReactants(selected) THEN evaluator_evaluate(selected) ELSE {NaN}
\* mutant: the score is added without the np.isfinite test
evaluate_scores_always(scores, selected, r) == add_score(scores, selected, r)
\* mutant: a finite score reaches the reagent of the first slot only
evaluate_scores_first_slot(scores, selected, r) ==
    IF isfinite(r) THEN [scores EXCEPT ![<<0, selected[0]>>] = Append(@, r)] ELSE scores
\* evaluate's effect on the reagents: add_score only for a finite res
evaluate_scores(scores, selected, r) ==
    IF isfinite(r) THEN add_score(scores, selected, r) ELSE scores
\* the caller's record of the result: appended only for a finite score
append_result(results, selected, r) ==
    IF isfinite(r) THEN Append(results, <<r, selected>>) ELSE results

\* ------------------------------------------------------------- Init
\* the reagent sets for which the assembler fails: none, the first reagent
\* of one slot, or every reagent of one slot
BadReagentChoices ==
    {{}} \cup {{<<s, 0>>} : s \in idx_list}
         \cup {{e \in Reagents : e[1] = s} : s \in idx_list}

\* mutant: a trial is not counted, the loops stay where they are
AfterTrial_not_counted(a, b, c) == <<"warm_trial", a, b, c>>
\* where warm_up's loops stand after the trial (a, b, c): the next trial, or
\* the statistics once every slot is done
AfterTrial(a, b, c) ==
    IF c + 1 < num_warmup_trials THEN <<"warm_trial", a, b, c + 1>>
    ELSE IF b + 1 < reagent_count_list[a] THEN <<"warm_trial", a, b + 1, 0>>
    ELSE IF a + 1 < n_slots THEN <<"warm_trial", a + 1, 0, 0>>
    ELSE <<"warm_stats", a, b, c>>

\* the sampler with its reagents read and its tracker set, before warm_up:
\* everything but the mode and the position
Loaded ==
    /\ \E sizes \in SlotSizeChoices :
           reagent_count_list = [s \in 0 .. (Len(sizes) - 1) |-> sizes[s + 1]]
    /\ num_warmup_trials \in 0 .. MaxTrials
    /\ evaluator \in Evaluators
    /\ bad_reagents \in BadReagentChoices
    /\ _disallow_mask = [v \in QueryVectors |-> {}]
    /\ retired = {}
    /\ initial_scores = [e \in Reagents |-> <<>>]
    /\ initialized = {}
    /\ _warmup_std = NaN
    /\ warmup_results = <<>>
    /\ out_list = <<>>
    /\ i = 0 /\ j = 0 /\ k = 0
    /\ partner_list = <<>>
    /\ current_list = AllEmpty
    /\ num_cycles = 0
    /\ cycle = 0
    /\ order = <<>>
    /\ selected_reagents = AllEmpty
    /\ query_vector = AllEmpty
    /\ disallow_mask = {}
    /\ choice_row = <<>>
    /\ cycle_id = 0
    /\ picked = Empty
    /\ res = NaN
    /\ calls = 0
    /\ update_count = [c \in Combinations |-> 0]
    /\ primary_commits = [e \in Reagents |-> 0]
    /\ error = ""

\* where warm_up starts: its first trial, or the statistics when there is none
WarmStart == IF num_warmup_trials = 0 THEN "warm_stats" ELSE "warm_trial"

\* a sampler constructed with one of the four modes
Init ==
    /\ Loaded
    /\ mode_arg \in Modes
    /\ _mode = mode_arg
    /\ pc = WarmStart

config_vars == <<reagent_count_list, mode_arg, _mode, num_warmup_trials, evaluator, bad_reagents>>
search_vars == <<num_cycles, cycle, order, selected_reagents, out_list, calls>>
warm_vars == <<i, j, k, partner_list, current_list, warmup_results>>
pick_vars == <<query_vector, disallow_mask, choice_row, cycle_id, picked>>
reagent_vars == <<initial_scores, initialized, _warmup_std>>
tracker_vars == <<_disallow_mask, retired, update_count, primary_commits>>

\* the ascending sequence of the slots other than a
RECURSIVE partners_from(_, _)
partners_from(a, s) ==
    IF s = n_slots THEN <<>>
    ELSE IF s = a THEN partners_from(a, s + 1)
    ELSE <<s>> \o partners_from(a, s + 1)

\* the locals of the slot fills are dead once the selection is complete
PickDone ==
    /\ query_vector' = AllEmpty
    /\ disallow_mask' = {}
    /\ choice_row' = <<>>
    /\ cycle_id' = 0
    /\ picked' = Empty

\* mutant: the trial is started without the test of line 157
WarmQuery_no_skip ==
    /\ pc = "warm_trial"
    /\ LET cl == [AllEmpty EXCEPT ![i] = To_Fill]
       IN /\ query_vector' = cl
          /\ disallow_mask' = get_disallowed_selection_mask(_disallow_mask, cl)
          /\ current_list' = [cl EXCEPT ![i] = j]
          /\ partner_list' = partners_from(i, 0)
          /\ pc' = IF partners_from(i, 0) = <<>> THEN "warm_update" ELSE "warm_partner"
    /\ UNCHANGED <<config_vars, tracker_vars, reagent_vars, search_vars, warmup_results,
                   i, j, k, choice_row, cycle_id, picked, res, error>>

\* ---------------------------------------------------------- warm_up
\* lines 154-159: build current_list, ask whether reagent j of slot i is
\* still legal; when it is not, the trial is skipped
WarmQuery ==
    /\ pc = "warm_trial"
    /\ LET cl == [AllEmpty EXCEPT ![i] = To_Fill]
           dm == get_disallowed_selection_mask(_disallow_mask, cl)
           nxt == AfterTrial(i, j, k)
       IN /\ query_vector' = cl
          /\ disallow_mask' = dm
          /\ IF j \notin dm
             THEN /\ current_list' = [cl EXCEPT ![i] = j]
                  /\ partner_list' = partners_from(i, 0)
                  /\ pc' = IF partners_from(i, 0) = <<>> THEN "warm_update" ELSE "warm_partner"
                  /\ UNCHANGED <<i, j, k>>
             ELSE /\ current_list' = cl
                  /\ partner_list' = <<>>
                  /\ pc' = nxt[1] /\ i' = nxt[2] /\ j' = nxt[3] /\ k' = nxt[4]
    /\ UNCHANGED <<config_vars, tracker_vars, reagent_vars, search_vars, warmup_results,
                   choice_row, cycle_id, picked, res, error>>

\* lines 161-170: fill the next partner slot p with a random legal reagent
WarmPartner ==
    /\ pc = "warm_partner"
    /\ LET p == Head(partner_list)
           cl == [current_list EXCEPT ![p] = To_Fill]
           dm == get_disallowed_selection_mask(_disallow_mask, cl)
       IN \E selection_scores \in Rows(p) :
            LET masked == null_disallowed(selection_scores, dm)
                picks == nanargmax(masked)
            IN /\ query_vector' = cl
               /\ disallow_mask' = dm
               /\ choice_row' = masked
               /\ cycle_id' = p
               /\ IF picks = {}
                  THEN /\ picked' = NaN
                       /\ current_list' = cl
                       /\ pc' = "error"
                       /\ error' = "ValueError: All-NaN slice encountered"
                       /\ UNCHANGED partner_list
                  ELSE \E c \in picks :
                       /\ picked' = c
                       /\ current_list' = [cl EXCEPT ![p] = c]
                       /\ partner_list' = Tail(partner_list)
                       /\ pc' = IF Tail(partner_list) = <<>> THEN "warm_update" ELSE "warm_partner"
                       /\ UNCHANGED error
    /\ UNCHANGED <<config_vars, tracker_vars, reagent_vars, search_vars, warmup_results,
                   i, j, k, res>>

\* line 171: self._disallow_tracker.update(current_list)
WarmUpdate ==
    /\ pc = "warm_update"
    /\ _disallow_mask' = update(_disallow_mask, current_list)
    /\ update_count' = [update_count EXCEPT ![current_list] = @ + 1]
    /\ primary_commits' = [primary_commits EXCEPT ![<<i, j>>] = @ + 1]
    /\ pc' = "warm_evaluate"
    /\ PickDone
    /\ UNCHANGED <<config_vars, retired, reagent_vars, search_vars, warm_vars, res, error>>

\* lines 172-174: evaluate the combination, keep a finite score
WarmEvaluate ==
    /\ pc = "warm_evaluate"
    /\ \E r \in evaluate_res(current_list) :
          /\ res' = r
          /\ initial_scores' = evaluate_scores(initial_scores, current_list, r)
          /\ warmup_results' = append_result(warmup_results, current_list, r)
    /\ LET nxt == AfterTrial(i, j, k)
       IN pc' = nxt[1] /\ i' = nxt[2] /\ j' = nxt[3] /\ k' = nxt[4]
    /\ UNCHANGED <<config_vars, tracker_vars, initialized, _warmup_std, search_vars,
                   partner_list, current_list, pick_vars, error>>

\* mutant: only the reagents of the first slot are retired
reagents_to_retire_first_slot(scores) ==
    {e \in Reagents : e[1] = 0 /\ init_given_prior_raises(scores, e)}
\* lines 188-195: the reagents whose init_given_prior raises ValueError and
\* that are handed to retire_one_synthon
reagents_to_retire(scores) == {e \in Reagents : init_given_prior_raises(scores, e)}
RECURSIVE retire_all(_, _)
retire_all(mask, rs) ==
    IF rs = {} THEN mask
    ELSE LET e == CHOOSE x \in rs : TRUE
         IN retire_all(retire_one_synthon(mask, e[1], e[2]), rs \ {e})

\* lines 176-197: the statistics of the warm-up scores (np.min raises on an
\* empty list), then every reagent is initialised from the prior and the
\* reagents without a score are retired
WarmStats ==
    /\ pc = "warm_stats"
    /\ IF warmup_results = <<>>
       THEN /\ pc' = "error"
            /\ error' = "ValueError: zero-size array to reduction operation minimum"
            /\ UNCHANGED <<tracker_vars, reagent_vars>>
       ELSE /\ _warmup_std' = np_std([x \in DOMAIN warmup_results |-> warmup_results[x][1]])
            /\ initialized' = Reagents \ reagents_to_retire(initial_scores)
            /\ retired' = retired \cup reagents_to_retire(initial_scores)
            /\ _disallow_mask' = retire_all(_disallow_mask, reagents_to_retire(initial_scores))
            /\ pc' = "ready"
            /\ UNCHANGED <<initial_scores, update_count, primary_commits, error>>
    /\ UNCHANGED <<config_vars, search_vars, warm_vars, pick_vars, res>>

\* ----------------------------------------------------------- search
\* mutant: the slots are drawn with replacement
SlotOrders_with_replacement == [1 .. n_slots -> idx_list]
\* random.sample(range(n), n): every order of the slots
SlotOrders == {q \in [1 .. n_slots -> idx_list] : \A a, b \in 1 .. n_slots : a # b => q[a] # q[b]}

\* mutant: search starts from a fresh tracker
SearchCall_fresh_tracker ==
    /\ pc \in {"ready", "done"}
    /\ calls < MaxCalls
    /\ calls' = calls + 1
    /\ num_cycles' \in NumCyclesChoices
    /\ out_list' = <<>>
    /\ cycle' = 0
    /\ pc' = "search_cycle"
    /\ _disallow_mask' = [v \in QueryVectors |-> {}]
    /\ UNCHANGED <<config_vars, retired, update_count, primary_commits, reagent_vars,
                   warm_vars, pick_vars, order, selected_reagents, res, error>>
\* lines 204-205: search is entered (again); only out_list starts afresh
SearchCall ==
    /\ pc \in {"ready", "done"}
    /\ calls < MaxCalls
    /\ calls' = calls + 1
    /\ num_cycles' \in NumCyclesChoices
    /\ out_list' = <<>>
    /\ cycle' = 0
    /\ pc' = "search_cycle"
    /\ UNCHANGED <<config_vars, tracker_vars, reagent_vars, warm_vars, pick_vars,
                   order, selected_reagents, res, error>>

\* lines 206-208: the next cycle starts from an empty selection and a fresh
\* random order of the slots
SearchCycle ==
    /\ pc = "search_cycle"
    /\ cycle < num_cycles
    /\ selected_reagents' = AllEmpty
    /\ order' \in SlotOrders
    /\ pc' = "search_fill"
    /\ UNCHANGED <<config_vars, tracker_vars, reagent_vars, warm_vars, pick_vars,
                   num_cycles, cycle, out_list, calls, res, error>>

\* lines 209-217: fill slot cycle_id: sample one value per reagent from its
\* posterior, null out the disallowed ones, let pick_function choose
SearchFill ==
    /\ pc = "search_fill"
    /\ LET cid == Head(order)
           sel == [selected_reagents EXCEPT ![cid] = To_Fill]
           dm == get_disallowed_selection_mask(_disallow_mask, sel)
       IN \E sampled \in Rows(cid) :
            LET masked == mask_choice_row(sampled, dm)
                picks == pick_function(_mode, _warmup_std, masked)
            IN /\ query_vector' = sel
               /\ disallow_mask' = dm
               /\ choice_row' = masked
               /\ cycle_id' = cid
               /\ IF picks = {}
                  THEN /\ picked' = NaN
                       /\ selected_reagents' = sel
                       /\ pc' = "error"
                       /\ error' = IF _mode \in {"maximize", "minimize"}
                                   THEN "ValueError: All-NaN slice encountered"
                                   ELSE "ValueError: probabilities do not sum to 1"
                       /\ UNCHANGED order
                  ELSE \E c \in picks :
                       /\ picked' = c
                       /\ selected_reagents' = [sel EXCEPT ![cid] = c]
                       /\ order' = Tail(order)
                       /\ pc' = IF Tail(order) = <<>> THEN "search_update" ELSE "search_fill"
                       /\ UNCHANGED error
    /\ UNCHANGED <<config_vars, tracker_vars, reagent_vars, warm_vars,
                   num_cycles, cycle, out_list, calls, res>>

\* mutant: the selection goes to evaluate without being committed
SearchUpdate_not_committed ==
    /\ pc = "search_update"
    /\ pc' = "search_evaluate"
    /\ PickDone
    /\ UNCHANGED <<config_vars, tracker_vars, reagent_vars, search_vars, warm_vars, res, error>>
\* line 218: self._disallow_tracker.update(selected_reagents)
SearchUpdate ==
    /\ pc = "search_update"
    /\ _disallow_mask' = update(_disallow_mask, selected_reagents)
    /\ update_count' = [update_count EXCEPT ![selected_reagents] = @ + 1]
    /\ pc' = "search_evaluate"
    /\ PickDone
    /\ UNCHANGED <<config_vars, retired, primary_commits, reagent_vars, search_vars, warm_vars, res, error>>

\* lines 220-225: evaluate, keep a finite score, and every ReportEvery
\* cycles report the best of out_list (max/min of an empty list raises)
SearchEvaluate ==
    /\ pc = "search_evaluate"
    /\ \E r \in evaluate_res(selected_reagents) :
          /\ res' = r
          /\ initial_scores' = evaluate_scores(initial_scores, selected_reagents, r)
          /\ out_list' = append_result(out_list, selected_reagents, r)
    /\ IF cycle % ReportEvery = 0 /\ out_list' = <<>>
       THEN /\ pc' = "error"
            /\ error' = "ValueError: max() arg is an empty sequence"
            /\ UNCHANGED cycle
       ELSE /\ pc' = "search_cycle"
            /\ cycle' = cycle + 1
            /\ UNCHANGED error
    /\ UNCHANGED <<config_vars, tracker_vars, initialized, _warmup_std, warm_vars, pick_vars,
                   num_cycles, order, selected_reagents, calls>>

\* line 226: return out_list
SearchReturn ==
    /\ pc = "search_cycle"
    /\ cycle = num_cycles
    /\ pc' = "done"
    /\ UNCHANGED <<config_vars, tracker_vars, reagent_vars, warm_vars, pick_vars,
                   search_vars, res, error>>

Next ==
    \/ WarmQuery
    \/ WarmPartner
    \/ WarmUpdate
    \/ WarmEvaluate
    \/ WarmStats
    \/ SearchCall
    \/ SearchCycle
    \/ SearchFill
    \/ SearchUpdate
    \/ SearchEvaluate
    \/ SearchReturn

Spec == Init /\ [][Next]_vars

\* ------------------------------------------------------- construction
\* mode strings __init__ may be handed besides the four it knows
OtherModes == {"", "Maximize", "boltzmann"}

\* mutant: the two Boltzmann branches of __init__ are missing
supported_greedy_only(m) == m = "maximize" \/ m = "minimize"
\* lines 35-50: the if/elif chain of __init__ reaches a branch that sets
\* pick_function and _top_func; otherwise the else branch raises
supported(m) ==
    IF m = "maximize" THEN TRUE
    ELSE IF m = "minimize" THEN TRUE
    ELSE IF m = "maximize_boltzmann" THEN TRUE
    ELSE IF m = "minimize_boltzmann" THEN TRUE
    ELSE FALSE

\* the caller is about to construct the sampler with some mode string
InitConstruct ==
    /\ Loaded
    /\ mode_arg \in Modes \cup OtherModes
    /\ _mode = ""
    /\ pc = "construct"

\* lines 34-51: ThompsonSampler.__init__(mode)
Construct ==
    /\ pc = "construct"
    /\ _mode' = mode_arg
    /\ IF supported(mode_arg)
       THEN pc' = WarmStart /\ UNCHANGED error
       ELSE pc' = "error" /\ error' = "ValueError: not a supported argument"
    /\ UNCHANGED <<reagent_count_list, mode_arg, num_warmup_trials, evaluator, bad_reagents,
                   tracker_vars, reagent_vars, search_vars, warm_vars, pick_vars, res>>

NextConstruct ==
    \/ Construct
    \/ Next

SpecConstruct == InitConstruct /\ [][NextConstruct]_vars

TypeOK ==
    /\ pc \in {"construct", "warm_trial", "warm_partner", "warm_update", "warm_evaluate", "warm_stats",
               "ready", "search_cycle", "search_fill", "search_update", "search_evaluate",
               "done", "error"}
    /\ retired \subseteq Reagents
    /\ \A v \in QueryVectors : _disallow_mask[v] \subseteq AllIndices

\* ===================================================== claims
WarmPcs == {"warm_trial", "warm_partner", "warm_update", "warm_evaluate", "warm_stats"}
SearchPcs == {"search_cycle", "search_fill", "search_update", "search_evaluate"}
\* the combination the control thread is working on
Selection == IF pc \in WarmPcs THEN current_list ELSE selected_reagents
\* the tracker has selected recorded: each of its indices is disallowed in
\* the context of the others
Recorded(selected) ==
    \A s \in idx_list : selected[s] \in _disallow_mask[[selected EXCEPT ![s] = To_Fill]]

\* C1: over warm_up and every following search call, no full combination
\* is passed to DisallowTracker.update more than once.
C1_NoCombinationCommittedTwice == \A c \in Combinations : update_count[c] <= 1
\* a second search call has just committed a combination
C1_Witness ==
    /\ calls = 2 /\ pc = "search_evaluate"
    /\ update_count[selected_reagents] = 1
    /\ \E c \in Combinations : c # selected_reagents /\ update_count[c] = 1

\* C2: an evaluation without product or with a non-finite score, in warm_up
\* or in search, leaves the combination committed to the tracker, adds no
\* score to any reagent and adds no entry to the result list.
C2_FailedEvaluationOnlyCommits ==
    [][(pc \in {"warm_evaluate", "search_evaluate"} /\ ~isfinite(res'))
         => /\ update_count[Selection] = 1
            /\ Recorded(Selection)
            /\ UNCHANGED <<initial_scores, initialized, warmup_results, out_list,
                           _disallow_mask, update_count>>]_vars
\* search goes on after a failed second cycle that followed a scored one
C2_Witness ==
    /\ pc = "search_cycle" /\ cycle = 2 /\ ~isfinite(res)
    /\ Len(out_list) = 1
    /\ update_count[selected_reagents] = 1
    /\ out_list[1][2] # selected_reagents

\* C3: a failing cycle is not fatal in search: search is ended by no error
\* other than one raised by the selection itself (stated in this weaker form,
\* which excuses every error of pick_function, so that only the handling of
\* failed cycles is tested).
C3_FailedCyclesNotFatal == (pc = "error" /\ calls >= 1) => picked = NaN

\* C4: when every reagent of some slot always fails to assemble, warm_up
\* (with at least one trial per reagent) completes and every reagent of that
\* slot is retired afterwards.
C4_FailingSlotRetired ==
    \A s \in idx_list :
        ((\A x \in Indices(s) : <<s, x>> \in bad_reagents)
            /\ num_warmup_trials >= 1 /\ pc \notin WarmPcs)
            => /\ calls >= 1 \/ pc = "ready"
               /\ \A x \in Indices(s) : <<s, x>> \in retired

\* C5: when warm_up returns, a reagent is retired in the tracker exactly when
\* it has no finite warm-up score; the others are initialised from the prior.
C5_RetiredIffUnscored ==
    pc = "ready" =>
        \A e \in Reagents :
            /\ e \in retired <=> initial_scores[e] = <<>>
            /\ e \in initialized <=> initial_scores[e] # <<>>
            /\ e \in retired =>
                 \A v \in QueryVectors : v[e[1]] = To_Fill => e[2] \in _disallow_mask[v]
            /\ _warmup_std # NaN
\* warm_up returned with a retired reagent and an initialised one in one slot
C5_Witness ==
    /\ pc = "ready"
    /\ \E e, f \in Reagents :
          /\ e[1] = f[1] /\ e \in retired /\ f \in initialized
          /\ \E v \in QueryVectors : v[f[1]] = To_Fill /\ f[2] \notin _disallow_mask[v]

\* C6: a reagent retired at the end of warm_up is selected by no later
\* search cycle, in any search call, whatever the order of the slots.
C6_RetiredNeverSelected ==
    (calls >= 1) =>
        /\ \A s \in idx_list : <<s, selected_reagents[s]>> \notin retired
        /\ picked \in Indices(cycle_id) => <<cycle_id, picked>> \notin retired
\* search completed a selection in a slot that has a retired reagent, after
\* filling that slot last
C6_Witness ==
    /\ pc = "search_update"
    /\ \E e \in retired :
          /\ cycle_id = e[1] /\ picked \in Indices(e[1]) /\ picked # e[2]
          /\ selected_reagents[e[1]] = picked

\* C7: in every mode and in both phases a pick over a non-empty legal set
\* returns one index outside the disallow set of that query, and a pick over
\* a fully disallowed slot raises instead.
C7_PickLegalOrError ==
    (picked # Empty) =>
        IF disallow_mask # Indices(cycle_id)
        THEN picked \in Indices(cycle_id) \ disallow_mask
        ELSE picked = NaN

\* C8: in maximize mode the picked index holds the greatest sampled value
\* among the legal indices of the slot, in minimize mode the least; a
\* disallowed index is never picked.
C8_ExtremumAmongLegal ==
    (pc \in SearchPcs /\ picked \in Indices(cycle_id) /\ _mode \in {"maximize", "minimize"}) =>
        /\ picked \notin disallow_mask
        /\ choice_row[picked] # NaN
        /\ \A x \in Indices(cycle_id) \ disallow_mask :
              IF _mode = "maximize" THEN choice_row[picked] >= choice_row[x]
              ELSE choice_row[picked] <= choice_row[x]
\* a maximize pick among two legal reagents of different value, the legal
\* reagent of greater value following the one of smaller value, with a
\* third reagent disallowed
C8_Witness ==
    /\ pc \in SearchPcs /\ _mode = "maximize" /\ picked \in Indices(cycle_id)
    /\ disallow_mask # {}
    /\ \E x \in Indices(cycle_id) \ disallow_mask :
          x < picked /\ choice_row[x] < choice_row[picked]

\* the end-to-end scenario: slot sizes [3, 2], an assembler that always
\* succeeds, score = sum of the indices, warm_up(2)
EndToEnd ==
    /\ reagent_count_list = [s \in 0 .. 1 |-> IF s = 0 THEN 3 ELSE 2]
    /\ bad_reagents = {}
    /\ evaluator = "sum"
    /\ num_warmup_trials = 2
TrueMax == CHOOSE m \in {CombSum(c, 0) : c \in Combinations} :
               \A c \in Combinations : CombSum(c, 0) <= m
\* the scores and the combinations of a result list
ScoresOf(results) == {results[x][1] : x \in DOMAIN results}
CombinationsOf(results) == {results[x][2] : x \in DOMAIN results}

\* C9 as stated: in the end-to-end scenario search(6) ends with exactly 6
\* finite results, no combination is committed twice and the best reported
\* score is the true maximum.
C9_EndToEndAsStated ==
    (EndToEnd /\ calls = 1 /\ num_cycles = 6 /\ pc \in {"done", "error"}) =>
        /\ pc = "done"
        /\ Len(out_list) = 6
        /\ \A c \in Combinations : update_count[c] <= 1
        /\ \A x \in ScoresOf(out_list) : x <= TrueMax
        /\ TrueMax \in ScoresOf(out_list)
\* C9 amended: in the end-to-end scenario warm_up(2) itself commits each of
\* the 6 combinations exactly once and returns 6 finite results whose best
\* score is the true maximum; search(6) then finds no legal index in its
\* first cycle and raises, committing nothing and recording no result.
C9_EndToEndAmended ==
    EndToEnd =>
        /\ pc \notin WarmPcs =>
              /\ Len(warmup_results) = 6
              /\ CombinationsOf(warmup_results) = Combinations
              /\ \A c \in Combinations : update_count[c] = 1
              /\ \A x \in ScoresOf(warmup_results) : x <= TrueMax
              /\ TrueMax \in ScoresOf(warmup_results)
              /\ retired = {}
        /\ (calls >= 1 /\ num_cycles = 6) =>
              /\ pc \in {"search_cycle", "search_fill", "error"}
              /\ cycle = 0 /\ out_list = <<>>
              /\ pc = "error" => (picked = NaN /\ disallow_mask = Indices(cycle_id))
\* search(6) has raised in the end-to-end scenario
C9_Witness ==
    EndToEnd /\ calls = 1 /\ num_cycles = 6 /\ pc = "error" /\ Len(warmup_results) = 6

\* the query made when slot q[t] is filled after the slots q[1..t-1] took
\* their values from c
FillQuery(c, q, t) ==
    [s \in idx_list |->
        IF s = q[t] THEN To_Fill
        ELSE IF \E u \in 1 .. (t - 1) : q[u] = s THEN c[s] ELSE Empty]
\* c can be put together by legal picks in some order of the slots
LegallyReachable(c) ==
    \E q \in SlotOrders :
        \A t \in 1 .. n_slots : c[q[t]] \notin _disallow_mask[FillQuery(c, q, t)]

\* C10: a committed combination cannot be reached by legal picks again, in
\* any order of the slots; with slot sizes [2, 2], once all 4 combinations
\* are committed every index of every slot is disallowed in every context.
C10_NoRepeat ==
    /\ \A c \in Combinations : update_count[c] >= 1 => ~LegallyReachable(c)
    /\ (reagent_count_list = [s \in 0 .. 1 |-> 2] /\ \A c \in Combinations : update_count[c] >= 1)
          => \A v \in QueryVectors : \A s \in idx_list :
                 v[s] = To_Fill => _disallow_mask[v] = Indices(s)
\* the 4 combinations of [2, 2] have been committed, none by retirement
C10_Witness ==
    /\ reagent_count_list = [s \in 0 .. 1 |-> 2]
    /\ \A c \in Combinations : update_count[c] = 1
    /\ retired = {}

\* C11: constructing the sampler with a mode other than maximize, minimize,
\* maximize_boltzmann or minimize_boltzmann fails with a ValueError, and
\* with each of these four modes construction succeeds.
C11_ConstructionChecksMode ==
    [][pc = "construct" =>
         IF mode_arg \in {"maximize", "minimize", "maximize_boltzmann", "minimize_boltzmann"}
         THEN pc' = WarmStart /\ error' = "" /\ _mode' = mode_arg
         ELSE pc' = "error" /\ error' = "ValueError: not a supported argument"]_vars
\* the construction with the mode string "boltzmann" has raised
C11_Witness ==
    /\ pc = "error" /\ error = "ValueError: not a supported argument"
    /\ mode_arg = "boltzmann" /\ _mode = mode_arg

\* no combination is legal any more: each one is committed or holds a
\* retired reagent
NoLegalCombination ==
    \A c \in Combinations :
        update_count[c] >= 1 \/ \E s \in idx_list : <<s, c[s]>> \in retired

\* C12 as stated: in no reachable state of warm_up or search is the
\* selection asked to choose from an empty legal set, i.e. with a disallow
\* set that covers the whole slot.
C12_NeverEmptyLegalSet == picked # Empty => disallow_mask # Indices(cycle_id)
\* C12 amended: warm_up never asks the selection to choose from an empty
\* legal set; search does so only at the first slot it fills in a cycle and
\* only when no legal combination is left, and the pick then raises.
C12_EmptyLegalSetOnlyWhenExhausted ==
    (picked # Empty /\ disallow_mask = Indices(cycle_id)) =>
        /\ calls >= 1
        /\ picked = NaN /\ pc = "error"
        /\ query_vector = [AllEmpty EXCEPT ![cycle_id] = To_Fill]
        /\ NoLegalCombination
\* a search cycle found its first slot wholly disallowed although some
\* combination was never committed: the rest holds retired reagents
C12_Witness ==
    /\ calls >= 1 /\ picked = NaN /\ disallow_mask = Indices(cycle_id)
    /\ retired # {}
    /\ \E c \in Combinations : update_count[c] = 0

\* C13: in the Boltzmann modes a zero warm-up spread is guarded against: the
\* pick of a search cycle over a non-empty legal set still returns one legal
\* index and raises no error.
C13_ZeroSpreadGuarded ==
    (/\ _mode \in {"maximize_boltzmann", "minimize_boltzmann"}
     /\ _warmup_std = 0
     /\ calls >= 1 /\ picked # Empty
     /\ disallow_mask # Indices(cycle_id))
        => (picked \in Indices(cycle_id) \ disallow_mask /\ error = "")

UpdatePcs == {"warm_update", "search_update"}
EvaluatePcs == {"warm_evaluate", "search_evaluate"}
FillPcs == {"warm_trial", "warm_partner", "search_fill"}

\* C14: in every warm-up trial that is not skipped and in every search
\* cycle the tracker is committed exactly once, only when every slot of the
\* selection is concrete and before evaluate is called; the scores of the
\* reagents change only in the evaluate that follows the commit, and no
\* legality query changes the tracker or the scores.
C14_CommitOnceBeforeEvaluate ==
    [][/\ update_count' # update_count =>
            /\ pc \in UpdatePcs /\ pc' \in EvaluatePcs
            /\ Selection \in Combinations
            /\ update_count' = [update_count EXCEPT ![Selection] = @ + 1]
            /\ UNCHANGED <<initial_scores, res, warmup_results, out_list>>
       /\ pc' \in UpdatePcs => (pc \in FillPcs /\ UNCHANGED update_count)
       /\ pc' \in EvaluatePcs => (pc \in UpdatePcs /\ update_count' # update_count)
       /\ pc \in EvaluatePcs =>
            /\ pc' \in {"warm_trial", "warm_stats", "search_cycle", "error"}
            /\ update_count[Selection] >= 1
            /\ UNCHANGED <<update_count, _disallow_mask>>
       /\ initial_scores' # initial_scores => pc \in EvaluatePcs
       /\ pc \in FillPcs => UNCHANGED <<update_count, _disallow_mask, initial_scores>>
      ]_vars
\* the second cycle of a search call has committed its combination and is
\* about to evaluate it, the first cycle's score being recorded
C14_Witness ==
    /\ pc = "search_evaluate" /\ cycle = 1 /\ Len(out_list) = 1
    /\ update_count[selected_reagents] = 1
    /\ update_count[out_list[1][2]] = 1

\* C15: when an evaluation returns a finite score, in warm_up or in search,
\* each reagent of the evaluated combination receives that score exactly
\* once and the scores of every other reagent are unchanged.
C15_FiniteScoreToParticipants ==
    [][(pc \in EvaluatePcs /\ isfinite(res')) =>
         /\ \A e \in Reagents :
               initial_scores'[e] =
                   IF Selection[e[1]] = e[2] THEN Append(initial_scores[e], res')
                   ELSE initial_scores[e]
         /\ UNCHANGED <<initialized, _warmup_std>>
      ]_vars
\* a search cycle has added a second score to both reagents of its
\* combination while another reagent still has the one from warm_up
C15_Witness ==
    /\ pc = "search_cycle" /\ cycle >= 1 /\ isfinite(res)
    /\ \A s \in idx_list :
          /\ Len(initial_scores[<<s, selected_reagents[s]>>]) = 2
          /\ initial_scores[<<s, selected_reagents[s]>>][2] = res
    /\ \E e \in Reagents : Len(initial_scores[e]) = 1 /\ selected_reagents[e[1]] # e[2]

RECURSIVE SumOver(_, _)
SumOver(f, S) ==
    IF S = {} THEN 0
    ELSE LET x == CHOOSE y \in S : TRUE IN f[x] + SumOver(f, S \ {x})
\* the trials of warm_up, and the number of those before trial (a, b, c)
Trials == {t \in Reagents \X (0 .. (num_warmup_trials - 1)) : TRUE}
TrialsBefore(a, b, c) ==
    Cardinality({t \in Trials :
        \/ t[1][1] < a
        \/ t[1][1] = a /\ t[1][2] < b
        \/ t[1][1] = a /\ t[1][2] = b /\ t[2] < c})
\* how far warm_up has come: the trials done, then the steps of this trial
WarmRank ==
    LET per == n_slots + 3
    IN IF pc = "warm_trial" THEN TrialsBefore(i, j, k) * per
       ELSE IF pc = "warm_partner"
            THEN TrialsBefore(i, j, k) * per + n_slots - Len(partner_list)
       ELSE IF pc = "warm_update" THEN TrialsBefore(i, j, k) * per + n_slots
       ELSE IF pc = "warm_evaluate" THEN TrialsBefore(i, j, k) * per + n_slots + 1
       ELSE IF pc = "warm_stats" THEN Cardinality(Trials) * per
       ELSE Cardinality(Trials) * per + 1

\* what holds of warm_up's commits in every state; while warm_up runs its
\* position is within the trials and its next step is defined
WarmUpWithinBounds ==
    /\ \A e \in Reagents : primary_commits[e] <= num_warmup_trials
    /\ SumOver(primary_commits, Reagents) <= num_warmup_trials * Cardinality(Reagents)
    /\ pc \in WarmPcs =>
          /\ SumOver(update_count, Combinations) = SumOver(primary_commits, Reagents)
          /\ WarmRank <= Cardinality(Trials) * (n_slots + 3)
          /\ pc # "warm_stats" => <<<<i, j>>, k>> \in Trials
          /\ pc = "warm_partner" => partner_list # <<>>

\* C16: a warm-up attempt that finds reagent j of slot i disallowed commits
\* nothing, evaluates nothing and adds no score; each reagent is the
\* primary of at most num_warmup_trials commits, so warm_up commits at most
\* num_warmup_trials times the number of reagents, and warm_up terminates:
\* every step of it moves strictly forward in a finite order.
C16_WarmUpBounded ==
    [][/\ WarmUpWithinBounds
       /\ \A e \in Reagents : primary_commits'[e] <= num_warmup_trials
       /\ (pc = "warm_trial" /\ j \in disallow_mask') =>
             /\ pc' \in {"warm_trial", "warm_stats"}
             /\ UNCHANGED <<update_count, primary_commits, _disallow_mask, retired,
                            initial_scores, initialized, warmup_results, res>>
       /\ pc \in WarmPcs => WarmRank' > WarmRank
      ]_vars
\* warm_up has skipped its last trial, the reagent being disallowed, after
\* committing with that reagent as the primary fewer times than allowed
C16_Witness ==
    /\ pc = "warm_stats" /\ num_warmup_trials = 2
    /\ query_vector = [AllEmpty EXCEPT ![i] = To_Fill]
    /\ j \in disallow_mask
    /\ primary_commits[<<i, j>>] < num_warmup_trials
    /\ primary_commits[<<0, 0>>] = num_warmup_trials

\* a vector a legality query may carry: one slot being filled, every other
\* slot unfilled or holding an index of its range
WellFormedQuery(v) ==
    /\ DOMAIN v = idx_list
    /\ Cardinality({s \in idx_list : v[s] = To_Fill}) = 1
    /\ \A s \in idx_list : v[s] = To_Fill \/ v[s] = Empty \/ v[s] \in Indices(s)

\* C17: every legality query carries a vector with exactly one slot marked
\* To_Fill and every other slot Empty or a concrete index of its range;
\* each search cycle starts from the empty selection and fills every slot
\* exactly once, in an order that may be any permutation; every vector
\* passed to update is a full combination.
C17_VectorsWellFormed ==
    /\ [](/\ query_vector # AllEmpty => WellFormedQuery(query_vector)
          /\ pc \in UpdatePcs => Selection \in Combinations
          /\ pc = "search_fill" =>
                /\ order # <<>>
                /\ \A a, b \in DOMAIN order : a # b => order[a] # order[b]
                /\ \A s \in idx_list :
                      IF \E a \in DOMAIN order : order[a] = s
                      THEN selected_reagents[s] = Empty
                      ELSE selected_reagents[s] \in Indices(s))
    /\ [][/\ pc \in FillPcs => query_vector' # AllEmpty
          /\ (pc = "search_cycle" /\ pc' = "search_fill") =>
                (selected_reagents' = AllEmpty /\ Len(order') = n_slots)
          /\ (pc = "search_fill" /\ pc' # "error") =>
                \E s \in idx_list :
                   /\ selected_reagents[s] = Empty
                   /\ selected_reagents'[s] \in Indices(s)
                   /\ \A t \in idx_list \ {s} : selected_reagents'[t] = selected_reagents[t]
         ]_vars
\* a search cycle has filled the last slot first and now queries the first
\* slot with the last one concrete
C17_Witness ==
    /\ pc = "search_update" \/ pc = "search_fill"
    /\ cycle_id = 0 /\ picked \in Indices(0)
    /\ query_vector[0] = To_Fill
    /\ query_vector[n_slots - 1] \in Indices(n_slots - 1)
    /\ calls >= 1

\* C18: entering search resets nothing but the result list: the committed
\* combinations, the retired reagents, the warm-up spread and the scores of
\* every reagent are those the preceding warm_up or search call left.
C18_SearchEntryKeepsState ==
    [][(pc \in {"ready", "done"} /\ pc' # pc) =>
         /\ pc' = "search_cycle" /\ calls' = calls + 1
         /\ out_list' = <<>>
         /\ UNCHANGED <<_disallow_mask, update_count, retired, _warmup_std,
                        initial_scores, initialized>>
      ]_vars
\* a second search call has just been entered: its result list is empty
\* while the combinations and scores of the first call are kept
C18_Witness ==
    /\ calls = 2 /\ pc = "search_cycle" /\ cycle = 0 /\ out_list = <<>>
    /\ \E c \in Combinations : update_count[c] = 1 /\ Recorded(c)
    /\ \E e \in Reagents : Len(initial_scores[e]) >= 2

====
